---------------------------- MODULE Spec2Model ----------------------------
(* A model of spacebin's document retrieval handlers (internal/server/     *)
(* fetch.go) and of the request-body helpers (internal/util/helpers.go).   *)
(*                                                                         *)
(* Strings that are split or measured character by character (the URL      *)
(* path parameter, the Content-Type header) are sequences of atoms.        *)
(* Strings of which only the length and the identity matter (request       *)
(* contents, user names, passwords) are run-length records [c, n]: the     *)
(* string made of n copies of the character c.                             *)
(*                                                                         *)
(* Writes to the http.ResponseWriter are taken to reach the client: a      *)
(* broken connection is outside the model.  The embedded error template    *)
(* web/error.html is taken to parse and execute (RenderError panics        *)
(* otherwise).                                                             *)
EXTENDS Integers, Sequences, FiniteSets, TLC

VARIABLES Config, Database, r, w, calls, decoded, validated

vars == <<Config, Database, r, w, calls, decoded, validated>>

-----------------------------------------------------------------------------
(* Bounds of the model *)

MaxParamLen == 4
MaxIDLength == 2
MaxFields == 2
MaxBodySize == 2
MaxValidateSize == 3
MaxContentLen == 4
MaxUsernameLen == 1
MaxPasswordLen == 129

(* HTTP status codes used by the handlers *)
StatusOK == 200
StatusBadRequest == 400
StatusNotFound == 404
StatusInternalServerError == 500

-----------------------------------------------------------------------------
(* Strings as sequences of atoms *)

Chars == {"a", "b", "."}

RECURSIVE SeqsUpTo(_, _)
SeqsUpTo(S, n) ==
  IF n = 0 THEN {<<>>}
  ELSE LET shorter == SeqsUpTo(S, n - 1)
       IN  shorter \cup {Append(s, c) : s \in {t \in shorter : Len(t) = n - 1}, c \in S}

Contains(list, x) == \E i \in 1..Len(list) : list[i] = x

IndexOf(s, sep) ==
  IF \E i \in 1..Len(s) : s[i] = sep
  THEN CHOOSE i \in 1..Len(s) : s[i] = sep /\ \A j \in 1..(i - 1) : s[j] # sep
  ELSE 0

(* strings.Split(s, sep) for a one-atom separator: always at least one *)
(* element, the whole of s when sep does not occur in it.              *)
RECURSIVE Split(_, _)
Split(s, sep) ==
  LET i == IndexOf(s, sep)
  IN  IF i = 0 THEN <<s>>
      ELSE <<SubSeq(s, 1, i - 1)>> \o Split(SubSeq(s, i + 1, Len(s)), sep)

-----------------------------------------------------------------------------
(* Errors: the message err.Error() yields, as a format and its arguments *)

Error(fmt, args) == [fmt |-> fmt, args |-> args]

EmptyMessage == Error("", <<>>)

ErrNoRows == Error("sql: no rows in result set", <<>>)
ErrContextCanceled == Error("context canceled", <<>>)
ErrConnection == Error("connection refused", <<>>)
ErrTemplate == Error("template error", <<>>)
ErrHighlight == Error("highlight error", <<>>)

ErrIDLength(id, cfg) ==
  Error("id is of length %d, should be %d", <<Len(id), cfg.IDLength>>)

-----------------------------------------------------------------------------
(* The Document Accessor: s.Database.GetDocument(ctx, id) *)

Document(id, content) ==
  [ID |-> id, Content |-> content, CreatedAt |-> 1, UpdatedAt |-> 1]

Faults == {"none", "canceled", "internal"}

GetDocument(db, id, fault) ==
  IF fault = "canceled" THEN [ok |-> FALSE, err |-> ErrContextCanceled]
  ELSE IF fault = "internal" THEN [ok |-> FALSE, err |-> ErrConnection]
  ELSE IF id \notin DOMAIN db THEN [ok |-> FALSE, err |-> ErrNoRows]
  ELSE [ok |-> TRUE, document |-> db[id]]

getDocument(db, id, fault) == GetDocument(db, id, fault)

-----------------------------------------------------------------------------
(* http.ResponseWriter: the header map, the committed status and content *)
(* type (status 0: nothing committed yet) and the chunks written.        *)

NewResponse == [header |-> "", status |-> 0, contentType |-> "", body |-> <<>>]

SetContentType(rw, ct) == [rw EXCEPT !.header = ct]

(* A second WriteHeader is superfluous: the first status stays. *)
WriteHeader(rw, status) ==
  IF rw.status # 0 THEN rw
  ELSE [rw EXCEPT !.status = status, !.contentType = rw.header]

(* http.DetectContentType on the first bytes written *)
DetectContentType(chunk) ==
  IF chunk.kind \in {"page", "partial", "error_page"}
  THEN "text/html; charset=utf-8"
  ELSE "text/plain; charset=utf-8"

(* The first Write commits status 200, and a sniffed content type when *)
(* the header has none.                                                *)
Write(rw, chunk) ==
  LET committed ==
        IF rw.status # 0 THEN rw
        ELSE [rw EXCEPT !.status = StatusOK,
                        !.contentType = IF rw.header = ""
                                        THEN DetectContentType(chunk)
                                        ELSE rw.header]
  IN  [committed EXCEPT !.body = Append(committed.body, chunk)]

-----------------------------------------------------------------------------
(* JSON values: an object is the sequence of its members, in the order *)
(* the encoder writes them.                                             *)

Member(key, value) == [key |-> key, value |-> value]

EmptyObject == <<>>

HasKey(obj, key) == \E i \in 1..Len(obj) : obj[i].key = key

JSONGet(obj, key) == obj[CHOOSE i \in 1..Len(obj) : obj[i].key = key].value

(* encoding/json of a database.Document *)
EncodeDocument(document) ==
  << Member("id", document.ID),
     Member("content", document.Content),
     Member("created_at", document.CreatedAt),
     Member("updated_at", document.UpdatedAt) >>

(* encoding/json of map[string]interface{}{"payload": p, "error": e}: *)
(* map keys are written sorted.                                        *)
Envelope(payload, message) ==
  << Member("error", message), Member("payload", payload) >>

JSONChunk(value) == [kind |-> "json", value |-> value]

(* util.WriteJSON: the Encode result is dropped and nil is returned, *)
(* whether or not the payload could be encoded.                      *)
WriteJSON(rw, status, document, encodeFails) ==
  LET w1 == WriteHeader(SetContentType(rw, "application/json"), status)
  IN  [w   |-> IF encodeFails THEN w1
               ELSE Write(w1, JSONChunk(Envelope(EncodeDocument(document), EmptyMessage))),
       ok |-> TRUE]

(* util.WriteError *)
WriteError(rw, status, e) ==
  LET w1 == WriteHeader(SetContentType(rw, "application/json"), status)
  IN  Write(w1, JSONChunk(Envelope(EmptyObject, e)))

StatusText(status) ==
  CASE status = StatusBadRequest -> "Bad Request"
    [] status = StatusNotFound -> "Not Found"
    [] status = StatusInternalServerError -> "Internal Server Error"
    [] OTHER -> ""

(* util.RenderError: the error template executed on Status and Error *)
RenderError(rw, status, err) ==
  LET w1 == WriteHeader(SetContentType(rw, "text/html"), status)
  IN  Write(w1, [kind   |-> "error_page",
                 Status |-> <<status, StatusText(status)>>,
                 Error  |-> err])

-----------------------------------------------------------------------------
(* External collaborators of the HTML route *)

(* template.ParseFS(resources, name) *)
ParseFS(name, fails) ==
  IF fails THEN [ok |-> FALSE, err |-> ErrTemplate]
  ELSE [ok |-> TRUE, t |-> name]

(* util.ParseMarkdown *)
ParseMarkdown(content) == <<"markdown", content>>

(* util.Highlight *)
Highlight(content, extension, fails) ==
  IF fails THEN [ok |-> FALSE, err |-> ErrHighlight]
  ELSE [ok |-> TRUE,
        highlighted |-> <<"highlighted", content, extension>>,
        css |-> "css"]

(* t.Execute(w, data) writes to w as it goes: it succeeds, fails before *)
(* anything is written, or fails after part of the page was written.    *)
ExecOutcomes == {"ok", "fails_before_output", "fails_after_output"}

Execute(rw, t, data, outcome) ==
  CASE outcome = "ok" ->
         [ok |-> TRUE, w |-> Write(rw, [kind |-> "page", template |-> t, data |-> data])]
    [] outcome = "fails_before_output" ->
         [ok |-> FALSE, w |-> rw, err |-> ErrTemplate]
    [] outcome = "fails_after_output" ->
         [ok |-> FALSE, err |-> ErrTemplate,
          w |-> Write(rw, [kind |-> "partial", template |-> t, data |-> data])]

-----------------------------------------------------------------------------
(* The handlers.  Each yields the response written and the identifiers *)
(* handed to the Document Accessor.                                     *)

BadIdentifierLengthOnly(id, cfg) == Len(id) # cfg.IDLength

(* The identifier check the three handlers make before the lookup *)
BadIdentifier(id, cfg) ==
  Len(id) # cfg.IDLength /\ ~Contains(cfg.Documents, id)

Handled(rw, ids) == [w |-> rw, calls |-> ids]

StaticDocumentHandler(cfg, db, req) ==
  LET params == Split(req.document, ".")
      id == params[1]
  IN
  IF BadIdentifier(id, cfg)
  THEN Handled(RenderError(NewResponse, StatusBadRequest, ErrIDLength(id, cfg)), <<>>)
  ELSE
  LET got == getDocument(db, id, req.fault) IN
  IF ~got.ok
  THEN IF got.err = ErrNoRows
       THEN Handled(RenderError(NewResponse, StatusNotFound, got.err), <<id>>)
       ELSE Handled(RenderError(NewResponse, StatusInternalServerError, got.err), <<id>>)
  ELSE
  IF req.reader = "true"
  THEN
    LET parsed == ParseFS("web/reader.html", req.parseFails) IN
    IF ~parsed.ok
    THEN Handled(RenderError(NewResponse, StatusInternalServerError, parsed.err), <<id>>)
    ELSE
    LET data == [Content |-> ParseMarkdown(got.document.Content),
                 Analytics |-> "analytics"]
        done == Execute(NewResponse, parsed.t, data, req.execute)
    IN  IF ~done.ok
        THEN Handled(RenderError(done.w, StatusInternalServerError, done.err), <<id>>)
        ELSE Handled(done.w, <<id>>)
  ELSE
    LET parsed == ParseFS("web/document.html", req.parseFails) IN
    IF ~parsed.ok
    THEN Handled(RenderError(NewResponse, StatusInternalServerError, parsed.err), <<id>>)
    ELSE
    LET extension == IF Len(params) = 2 THEN params[2] ELSE <<>>
        lit == Highlight(got.document.Content, extension, req.highlightFails)
    IN
    IF ~lit.ok
    THEN Handled(RenderError(NewResponse, StatusInternalServerError, lit.err), <<id>>)
    ELSE
    LET data == [Stylesheet |-> lit.css,
                 Content |-> got.document.Content,
                 Highlighted |-> lit.highlighted,
                 Extension |-> extension,
                 Analytics |-> "analytics"]
        done == Execute(NewResponse, parsed.t, data, req.execute)
    IN  IF ~done.ok
        THEN Handled(RenderError(done.w, StatusInternalServerError, done.err), <<id>>)
        ELSE Handled(done.w, <<id>>)

FetchDocumentHandler(cfg, db, req) ==
  LET id == req.document IN
  IF BadIdentifier(id, cfg)
  THEN Handled(WriteError(NewResponse, StatusBadRequest, ErrIDLength(id, cfg)), <<>>)
  ELSE
  LET got == getDocument(db, id, req.fault) IN
  IF ~got.ok
  THEN IF got.err = ErrNoRows
       THEN Handled(WriteError(NewResponse, StatusNotFound, got.err), <<id>>)
       ELSE Handled(WriteError(NewResponse, StatusInternalServerError, got.err), <<id>>)
  ELSE
  LET written == WriteJSON(NewResponse, StatusOK, got.document, req.encodeFails)
  IN  IF ~written.ok
      THEN Handled(WriteError(written.w, StatusInternalServerError, written.err), <<id>>)
      ELSE Handled(written.w, <<id>>)

Sprintf(fmt, args) == [kind |-> "formatted", fmt |-> fmt, args |-> args]

RawBodyWholeDocument(document) == [kind |-> "bytes", bytes |-> EncodeDocument(document)]

(* []byte(document.Content) *)
RawBody(document) == [kind |-> "bytes", bytes |-> document.Content]

FetchRawDocumentHandler(cfg, db, req) ==
  LET id == req.document IN
  IF BadIdentifier(id, cfg)
  THEN Handled(WriteError(NewResponse, StatusBadRequest, ErrIDLength(id, cfg)), <<>>)
  ELSE
  LET got == getDocument(db, id, req.fault)
      w1 == SetContentType(NewResponse, "text/plain")
  IN
  IF ~got.ok
  THEN IF got.err = ErrNoRows
       THEN Handled(Write(WriteHeader(w1, StatusNotFound),
                          Sprintf("Document with ID %s not found: %s", <<id, got.err>>)),
                    <<id>>)
       ELSE Handled(Write(WriteHeader(w1, StatusInternalServerError),
                          Sprintf("Error fetching document with ID %s: %s", <<id, got.err>>)),
                    <<id>>)
  ELSE Handled(Write(WriteHeader(w1, StatusOK), RawBody(got.document)), <<id>>)

-----------------------------------------------------------------------------
(* Request bodies.  A string of which only length and identity matter is *)
(* the run-length record Str(c, n).                                      *)

Str(c, n) == IF n = 0 THEN [c |-> "", n |-> 0] ELSE [c |-> c, n |-> n]

EmptyString == Str("", 0)

StrLen(s) == s.n

MiB == 1024 * 1024

JSONString(s) == [type |-> "string", s |-> s]
JSONNumber == [type |-> "number", s |-> EmptyString]

Field(name, value) == [name |-> name, value |-> value]

(* json.NewDecoder(r.Body).Decode(&resp), resp a map[string]string: a   *)
(* body that is not one JSON object, or an object with a member that is *)
(* not a string, is an error; of members with one key the last stays.   *)
DecodeJSON(body) ==
  IF body.format # "json" THEN [ok |-> FALSE]
  ELSE IF \E i \in 1..Len(body.members) : body.members[i].value.type # "string"
       THEN [ok |-> FALSE]
  ELSE [ok |-> TRUE, resp |-> body.members]

(* resp[key] of a Go map: the zero value "" for a missing key *)
MapIndex(resp, key) ==
  LET at == {i \in 1..Len(resp) : resp[i].key = key}
  IN  IF at = {} THEN EmptyString
      ELSE resp[CHOOSE i \in at : \A j \in at : j <= i].value.s

RECURSIVE ValueBytes(_)
ValueBytes(fields) ==
  IF fields = <<>> THEN 0
  ELSE StrLen(Head(fields).value) + ValueBytes(Tail(fields))

(* r.ParseMultipartForm(maxMemory).  The Content-Type must carry a       *)
(* boundary parameter and the body must be a multipart body; the values  *)
(* of the non-file parts may take maxMemory plus ten megabytes.  r.Form  *)
(* holds the URL query's values first, then the body's.                  *)
ParseMultipartForm(req, maxMemory) ==
  IF ~Contains(req.header, "boundary=x") THEN [ok |-> FALSE]
  ELSE IF req.body.format # "multipart" THEN [ok |-> FALSE]
  ELSE IF ValueBytes(req.body.members) > maxMemory + 10 * MiB THEN [ok |-> FALSE]
  ELSE [ok |-> TRUE, Form |-> req.query \o req.body.members]

(* r.FormValue(key): the first value of key in r.Form, "" when none *)
FormValue(form, key) ==
  LET at == {i \in 1..Len(form) : form[i].name = key}
  IN  IF at = {} THEN EmptyString
      ELSE form[CHOOSE i \in at : \A j \in at : i <= j].value

CreateRequest(content) == [Content |-> content]

Decoded(request, ok) == [request |-> request, ok |-> ok]

PrimaryTokenWholeHeader(header) == header

(* strings.Split(r.Header.Get("Content-Type"), ";")[0] *)
PrimaryToken(header) == Split(header, ";")[1]

(* util.HandleBody *)
HandleBody(maxSize, req) ==
  LET primary == PrimaryToken(req.header) IN
  IF primary = <<"application/json">>
  THEN LET d == DecodeJSON(req.body)
       IN  IF ~d.ok THEN Decoded(CreateRequest(EmptyString), FALSE)
           ELSE Decoded(CreateRequest(MapIndex(d.resp, "content")), TRUE)
  ELSE IF primary = <<"multipart/form-data">>
  THEN LET parsed == ParseMultipartForm(req, maxSize * MiB)
       IN  IF ~parsed.ok THEN Decoded(CreateRequest(EmptyString), FALSE)
           ELSE Decoded(CreateRequest(FormValue(parsed.Form, "content")), TRUE)
  ELSE Decoded(CreateRequest(EmptyString), TRUE)

-----------------------------------------------------------------------------
(* ozzo-validation: the rules ValidateBody uses *)

(* validation.Required on a string *)
Required(s) == IF StrLen(s) = 0 THEN "validation_required" ELSE "nil"

(* validation.Length(min, max): an empty value passes, and a bound that *)
(* is not positive is no bound.                                         *)
Length(min, max, s) ==
  LET l == StrLen(s) IN
  IF l = 0 THEN "nil"
  ELSE IF (min > 0 /\ l < min) \/ (max > 0 /\ l > max) \/ (min = 0 /\ max = 0 /\ l > 0)
       THEN "validation_length_out_of_range"
       ELSE "nil"

(* validation.Field(&v.F, rules...): the first rule that fails *)
FirstError(errs) ==
  IF \A i \in 1..Len(errs) : errs[i] = "nil" THEN "nil"
  ELSE errs[CHOOSE i \in 1..Len(errs) : errs[i] # "nil" /\ \A j \in 1..(i - 1) : errs[j] = "nil"]

(* validation.ValidateStruct: the fields that failed, each with its error *)
ValidateStruct(checked) ==
  {<<checked[i].name, checked[i].value>> : i \in {j \in 1..Len(checked) : checked[j].value # "nil"}}

CreateRequestRules(maxSize, v) ==
  << Field("Content", FirstError(<<Required(v.Content), Length(2, maxSize, v.Content)>>)) >>

SigninRequestRulesMinTen(v) ==
  << Field("Username", FirstError(<<Required(v.Username)>>)),
     Field("Password", FirstError(<<Required(v.Password), Length(10, 128, v.Password)>>)) >>

SigninRequestRules(v) ==
  << Field("Username", FirstError(<<Required(v.Username)>>)),
     Field("Password", FirstError(<<Required(v.Password), Length(16, 128, v.Password)>>)) >>

SignupRequestRules(v) ==
  << Field("Username", FirstError(<<Required(v.Username)>>)),
     Field("Password", FirstError(<<Required(v.Password), Length(16, 128, v.Password)>>)) >>

(* util.ValidateBody: the empty set is nil, the request is valid *)
ValidateBody(maxSize, kind, body) ==
  CASE kind = "CreateRequest" -> ValidateStruct(CreateRequestRules(maxSize, body))
    [] kind = "SigninRequest" -> ValidateStruct(SigninRequestRules(body))
    [] kind = "SignupRequest" -> ValidateStruct(SignupRequestRules(body))

-----------------------------------------------------------------------------
(* The state: the configuration and the stored documents, fixed at start; *)
(* the last retrieval request with what its collaborators did, the         *)
(* response written for it and the accessor calls it made; the last        *)
(* HandleBody and ValidateBody applications.  The handlers share no state  *)
(* across requests (each gets a fresh ResponseWriter), so a behaviour      *)
(* handles one request.                                                    *)

(* chi matches {document} against a non-empty path segment *)
Params == SeqsUpTo(Chars, MaxParamLen) \ {<<>>}

Identifiers == {id \in Params : ~Contains(id, ".")}

ReservedLists == { <<>>, << <<"b">>, <<"a", "b", "a">> >> }

Configs ==
  { [IDLength |-> n, Documents |-> docs] : n \in 1..MaxIDLength, docs \in ReservedLists }

StoredContent(id) == <<"#">> \o id

Databases ==
  { [id \in ids |-> Document(id, StoredContent(id))] :
      ids \in { {}, {id \in Identifiers : id \in {<<"a">>, <<"a", "b">>, <<"a", "b", "a">>}} } }

ReaderValues == {"", "true"}

Request(route, document, reader, fault, parseFails, highlightFails, execute, encodeFails) ==
  [route |-> route, document |-> document, reader |-> reader, fault |-> fault,
   parseFails |-> parseFails, highlightFails |-> highlightFails,
   execute |-> execute, encodeFails |-> encodeFails]

NoRequest == Request("none", <<>>, "", "none", FALSE, FALSE, "ok", FALSE)

Idle == [op |-> "none"]

Fresh == r = NoRequest /\ decoded = Idle /\ validated = Idle

(* Inputs of HandleBody *)
ContentTypes ==
  { primary \o params :
      primary \in { <<>>, <<"application/json">>, <<"multipart/form-data">>, <<"text/plain">> },
      params \in { <<>>, <<";", "charset=utf-8">>, <<";", "boundary=x">> } }

ContentLengths(maxSize) == {0, 2, maxSize * MiB + 1, maxSize * MiB + 10 * MiB + 1}

JSONMembers(maxSize) ==
  {Member("content", JSONString(Str("j", n))) : n \in ContentLengths(maxSize)}
    \cup {Member("content", JSONNumber),
          Member("other", JSONString(Str("o", 2))),
          Member("other", JSONNumber)}

FormFields(maxSize) ==
  {Field("content", Str("f", n)) : n \in ContentLengths(maxSize)}
    \cup {Field("other", Str("o", 2))}

Bodies(maxSize) ==
  {[format |-> "garbage", members |-> <<>>]}
    \cup {[format |-> "json", members |-> m] : m \in SeqsUpTo(JSONMembers(maxSize), MaxFields)}
    \cup {[format |-> "multipart", members |-> m] : m \in SeqsUpTo(FormFields(maxSize), MaxFields)}

Queries == { <<>>, <<Field("content", Str("q", 3))>> }

(* Inputs of ValidateBody *)
RequestKinds == {"CreateRequest", "SigninRequest", "SignupRequest"}

RequestBodies(kind) ==
  IF kind = "CreateRequest"
  THEN {CreateRequest(Str("x", n)) : n \in 0..MaxContentLen}
  ELSE {[Username |-> Str("u", n), Password |-> Str("p", m)] :
          n \in 0..MaxUsernameLen, m \in 0..MaxPasswordLen}

Init ==
  /\ Config \in Configs
  /\ Database \in Databases
  /\ r = NoRequest
  /\ w = NewResponse
  /\ calls = <<>>
  /\ decoded = Idle
  /\ validated = Idle

(* GET /{document}[.ext] *)
StaticDocument ==
  /\ Fresh
  /\ \E document \in Params, reader \in ReaderValues, fault \in Faults,
     parseFails \in BOOLEAN,    highlightFails \in BOOLEAN, execute \in ExecOutcomes :
       LET req == Request("html", document, reader, fault, parseFails,
                          highlightFails, execute, FALSE)
           out == StaticDocumentHandler(Config, Database, req)
       IN  /\ r' = req
           /\ w' = out.w
           /\ calls' = out.calls
           /\ UNCHANGED <<Config, Database, decoded, validated>>

(* GET /api/{document} *)
FetchDocument ==
  /\ Fresh
  /\ \E document \in Params, fault \in Faults, encodeFails \in BOOLEAN :
       LET req == Request("api", document, "", fault, FALSE, FALSE, "ok", encodeFails)
           out == FetchDocumentHandler(Config, Database, req)
       IN  /\ r' = req
           /\ w' = out.w
           /\ calls' = out.calls
           /\ UNCHANGED <<Config, Database, decoded, validated>>

(* GET /raw/{document} *)
FetchRawDocument ==
  /\ Fresh
  /\ \E document \in Params, fault \in Faults :
       LET req == Request("raw", document, "", fault, FALSE, FALSE, "ok", FALSE)
           out == FetchRawDocumentHandler(Config, Database, req)
       IN  /\ r' = req
           /\ w' = out.w
           /\ calls' = out.calls
           /\ UNCHANGED <<Config, Database, decoded, validated>>

(* A creation request reaches util.HandleBody *)
HandleBodyCall ==
  /\ Fresh
  /\ \E maxSize \in 1..MaxBodySize :
       \E header \in ContentTypes, body \in Bodies(maxSize), query \in Queries :
         LET req == [header |-> header, body |-> body, query |-> query]
         IN  /\ decoded' = [op |-> "HandleBody", maxSize |-> maxSize, req |-> req,
                            out |-> HandleBody(maxSize, req)]
             /\ UNCHANGED <<Config, Database, r, w, calls, validated>>

(* A typed request reaches util.ValidateBody *)
ValidateBodyCall ==
  /\ Fresh
  /\ \E maxSize \in 0..MaxValidateSize, kind \in RequestKinds :
       \E body \in RequestBodies(kind) :
         /\ validated' = [op |-> "ValidateBody", maxSize |-> maxSize, kind |-> kind,
                          body |-> body, err |-> ValidateBody(maxSize, kind, body)]
         /\ UNCHANGED <<Config, Database, r, w, calls, decoded>>

Next ==
  \/ StaticDocument
  \/ FetchDocument
  \/ FetchRawDocument
  \/ HandleBodyCall
  \/ ValidateBodyCall

Spec == Init /\ [][Next]_vars

-----------------------------------------------------------------------------
(* Properties of the retrieval routes *)

(* The identifier a route validates: the path parameter, on the HTML *)
(* route its part before the first '.'.                              *)
Identifier == IF r.route = "html" THEN Split(r.document, ".")[1] ELSE r.document

WellFormed(id) == Len(id) = Config.IDLength \/ Contains(Config.Documents, id)

Fetched == calls # <<>> /\ GetDocument(Database, calls[1], r.fault).ok

(* C1: on each retrieval route the accessor's get is called, once and with *)
(* exactly the identifier, iff the identifier has the configured length or *)
(* is reserved; otherwise the request is rejected with 400 and no lookup   *)
(* is made.                                                                *)
C1_LookupIffWellFormed ==
  r.route # "none" =>
    /\ WellFormed(Identifier) => calls = <<Identifier>>
    /\ ~WellFormed(Identifier) => calls = <<>> /\ w.status = StatusBadRequest

(* A reserved identifier of another length than IDLength was looked up. *)
C1_Witness ==
  /\ r.route = "raw"
  /\ calls # <<>>
  /\ Len(calls[1]) # Config.IDLength

(* C4: on the raw route a fetched document is answered with 200,        *)
(* text/plain and a body that is exactly the document's content.        *)
C4_RawBodyIsContent ==
  (r.route = "raw" /\ Fetched) =>
    /\ w.status = StatusOK
    /\ w.contentType = "text/plain"
    /\ Len(w.body) = 1
    /\ w.body[1].kind = "bytes"
    /\ w.body[1].bytes = Database[calls[1]].Content

C4_Witness ==
  /\ r.route = "raw"
  /\ Fetched
  /\ w.status = StatusOK
  /\ Len(w.body) = 1

ReaderMode == r.reader = "true"

(* A failure after the fetch: template resolution, highlighting (code mode) *)
(* or template execution on the HTML route, serialization on the API route. *)
RenderFailure ==
  r.route = "html" /\ (r.parseFails \/ (~ReaderMode /\ r.highlightFails) \/ r.execute # "ok")

SerializationFailure == r.route = "api" /\ r.encodeFails

ExpectedStatus ==
  LET got == GetDocument(Database, Identifier, r.fault)
  IN  IF ~WellFormed(Identifier) THEN StatusBadRequest
      ELSE IF ~got.ok
           THEN IF got.err = ErrNoRows THEN StatusNotFound ELSE StatusInternalServerError
      ELSE IF RenderFailure \/ SerializationFailure THEN StatusInternalServerError
      ELSE StatusOK

(* C2: on every retrieval route the status is 400 for a malformed         *)
(* identifier, 404 for the accessor's not-found, 500 for any other        *)
(* failure (accessor, rendering, serialization), and 200 only when the    *)
(* document was fetched and the response was produced without failure.    *)
C2_StatusSelection == r.route # "none" => w.status = ExpectedStatus

IsEnvelope(chunk) ==
  /\ chunk.kind = "json"
  /\ Len(chunk.value) = 2
  /\ HasKey(chunk.value, "payload")
  /\ HasKey(chunk.value, "error")

(* C3: every response of the JSON API route has content type              *)
(* application/json and a body that is one envelope: with status 200 the  *)
(* document as payload (its content the stored content) and an empty      *)
(* error, or with an error status an empty payload and a non-empty error; *)
(* the accessor's not-found gives 404 with payload {}.                    *)
C3_AlwaysEnvelope ==
  r.route = "api" =>
    /\ w.contentType = "application/json"
    /\ Len(w.body) = 1
    /\ IsEnvelope(w.body[1])
    /\ LET payload == JSONGet(w.body[1].value, "payload")
           message == JSONGet(w.body[1].value, "error")
       IN  \/ /\ w.status = StatusOK
              /\ message = EmptyMessage
              /\ Fetched
              /\ HasKey(payload, "content")
              /\ JSONGet(payload, "content") = Database[calls[1]].Content
           \/ /\ w.status \in {StatusBadRequest, StatusNotFound, StatusInternalServerError}
              /\ message # EmptyMessage
              /\ payload = EmptyObject
    /\ (calls # <<>> /\ r.fault = "none" /\ calls[1] \notin DOMAIN Database)
         => w.status = StatusNotFound

(* C5: every failure response of the raw route is text/plain with a body  *)
(* that is one formatted line naming the identifier and the error.        *)
C5_RawFailuresArePlainText ==
  (r.route = "raw" /\ w.status # StatusOK) =>
    /\ w.contentType = "text/plain"
    /\ Len(w.body) = 1
    /\ w.body[1].kind = "formatted"
    /\ Len(w.body[1].args) = 2
    /\ w.body[1].args[1] = r.document

(* C9: on the HTML route, when template resolution, highlighting or       *)
(* template execution fails after the document was fetched, the response  *)
(* is the error page with status 500 and nothing else: no committed 200   *)
(* and no partially rendered output.                                      *)
C9_RenderFailureIsErrorPage ==
  (r.route = "html" /\ Fetched /\ RenderFailure) =>
    /\ w.status = StatusInternalServerError
    /\ Len(w.body) = 1
    /\ w.body[1].kind = "error_page"
    /\ w.body[1].Status[1] = StatusInternalServerError

LastIndexOf(s, sep) ==
  IF \E i \in 1..Len(s) : s[i] = sep
  THEN CHOOSE i \in 1..Len(s) : s[i] = sep /\ \A j \in (i + 1)..Len(s) : s[j] # sep
  ELSE 0

(* The path parameter without its trailing .<ext>, and that suffix *)
Stem(s) == IF LastIndexOf(s, ".") = 0 THEN s ELSE SubSeq(s, 1, LastIndexOf(s, ".") - 1)

TrailingExt(s) ==
  IF LastIndexOf(s, ".") = 0 THEN <<>> ELSE SubSeq(s, LastIndexOf(s, ".") + 1, Len(s))

(* C10: on the HTML route the identifier validated and looked up is the   *)
(* path parameter with its trailing .<ext> stripped, and in code mode the *)
(* extension handed to the highlighter is that trailing suffix, also when *)
(* the parameter holds more than one '.'.                                 *)
C10_TrailingExtension ==
  r.route = "html" =>
    /\ calls # <<>> => calls[1] = Stem(r.document)
    /\ calls = <<>> => ~WellFormed(Stem(r.document))
    /\ (w.status = StatusOK /\ ~ReaderMode /\ Len(w.body) = 1 /\ w.body[1].kind = "page")
         => /\ w.body[1].data.Extension = TrailingExt(r.document)
            /\ w.body[1].data.Highlighted[3] = TrailingExt(r.document)

-----------------------------------------------------------------------------
(* Properties of the request-body helpers *)

(* The Content-Type header up to its first ';' *)
BeforeSemicolon(header) ==
  IF IndexOf(header, ";") = 0 THEN header ELSE SubSeq(header, 1, IndexOf(header, ";") - 1)

Decodable(body) ==
  body.format = "json" /\ \A i \in 1..Len(body.members) : body.members[i].value.type = "string"

(* The value of the last member named content of a JSON object, "" if none *)
LastContentMember(members) ==
  IF \A i \in 1..Len(members) : members[i].key # "content" THEN EmptyString
  ELSE LET i == CHOOSE k \in 1..Len(members) :
                  /\ members[k].key = "content"
                  /\ \A j \in (k + 1)..Len(members) : members[j].key # "content"
       IN  members[i].value.s

(* The value of the first field named content, "" if none *)
FirstContentField(fields) ==
  IF \A i \in 1..Len(fields) : fields[i].name # "content" THEN EmptyString
  ELSE LET i == CHOOSE k \in 1..Len(fields) :
                  /\ fields[k].name = "content"
                  /\ \A j \in 1..(k - 1) : fields[j].name # "content"
       IN  fields[i].value

HandleBodyJSONAndDefault ==
  LET req == decoded.req
      out == decoded.out
      primary == BeforeSemicolon(req.header)
  IN  /\ primary = <<"application/json">> =>
           IF Decodable(req.body)
           THEN out.ok /\ out.request.Content = LastContentMember(req.body.members)
           ELSE ~out.ok
      /\ primary \notin {<<"application/json">>, <<"multipart/form-data">>} =>
           out.ok /\ out.request.Content = EmptyString

(* C6, as amended: HandleBody dispatches on the header up to its first    *)
(* ';'.  application/json: the value of the content key, "" without      *)
(* error when the key is missing, an error when the body does not decode. *)
(* multipart/form-data: when the form parses, the first content value of  *)
(* the request form, in which the URL query's values precede the body's   *)
(* fields.  Any other or no content type: "" without error.               *)
C6_DispatchOnPrimaryToken ==
  decoded.op = "HandleBody" =>
    /\ HandleBodyJSONAndDefault
    /\ (BeforeSemicolon(decoded.req.header) = <<"multipart/form-data">> /\ decoded.out.ok)
         => /\ decoded.req.body.format = "multipart"
            /\ decoded.out.request.Content
                 = FirstContentField(decoded.req.query \o decoded.req.body.members)

(* A multipart request with a content query parameter and a content form *)
(* field was decoded.                                                    *)
C6_Witness ==
  /\ decoded.op = "HandleBody"
  /\ BeforeSemicolon(decoded.req.header) = <<"multipart/form-data">>
  /\ Len(decoded.req.header) > 1
  /\ decoded.out.ok
  /\ decoded.req.query # <<>>
  /\ FirstContentField(decoded.req.body.members) # EmptyString
  /\ decoded.out.request.Content = Str("q", 3)

(* C6 as stated: for multipart/form-data the result is the content form *)
(* field of the body.                                                   *)
C6_MultipartFormField ==
  decoded.op = "HandleBody" =>
    /\ HandleBodyJSONAndDefault
    /\ (BeforeSemicolon(decoded.req.header) = <<"multipart/form-data">> /\ decoded.out.ok)
         => /\ decoded.req.body.format = "multipart"
            /\ decoded.out.request.Content = FirstContentField(decoded.req.body.members)

MemberLength(body, i) ==
  IF body.format = "json" THEN StrLen(body.members[i].value.s)
  ELSE StrLen(body.members[i].value)

(* C7: a JSON or multipart creation request whose body exceeds maxSize   *)
(* megabytes makes HandleBody return an error, so no CreateRequest with  *)
(* over-limit content is returned.                                       *)
C7_OverLimitRejected ==
  (decoded.op = "HandleBody"
     /\ BeforeSemicolon(decoded.req.header) \in {<<"application/json">>, <<"multipart/form-data">>})
  => /\ (\E i \in 1..Len(decoded.req.body.members) :
            MemberLength(decoded.req.body, i) > decoded.maxSize * MiB) => ~decoded.out.ok
     /\ decoded.out.ok => StrLen(decoded.out.request.Content) <= decoded.maxSize * MiB

Named == {e[1] : e \in validated.err}

PasswordOK(v) == StrLen(v.Password) >= 16 /\ StrLen(v.Password) <= 128

SigninSignupRules ==
  validated.kind \in {"SigninRequest", "SignupRequest"} =>
    /\ validated.err = {} <=> (StrLen(validated.body.Username) > 0 /\ PasswordOK(validated.body))
    /\ "Username" \in Named <=> StrLen(validated.body.Username) = 0
    /\ "Password" \in Named <=> ~PasswordOK(validated.body)

(* C8, as amended: ValidateBody succeeds iff the variant's rules hold. A  *)
(* CreateRequest passes iff 2 <= len(content), and len(content) <=        *)
(* maxSize when maxSize is positive (a maxSize of zero is no upper        *)
(* bound).  A SigninRequest or SignupRequest passes iff username is       *)
(* non-empty and 16 <= len(password) <= 128.  The error names every       *)
(* violated field.                                                        *)
C8_ValidateBodyRules ==
  validated.op = "ValidateBody" =>
    /\ validated.kind = "CreateRequest" =>
         LET l == StrLen(validated.body.Content)
             passes == l >= 2 /\ (validated.maxSize <= 0 \/ l <= validated.maxSize)
         IN  /\ validated.err = {} <=> passes
             /\ "Content" \in Named <=> ~passes
    /\ SigninSignupRules

(* A SigninRequest with an empty username and a password of length 10: *)
(* the error names both fields.                                        *)
C8_Witness ==
  /\ validated.op = "ValidateBody"
  /\ validated.kind = "SigninRequest"
  /\ StrLen(validated.body.Username) = 0
  /\ StrLen(validated.body.Password) = 10
  /\ Named = {"Username", "Password"}

(* C8 as stated: for every maxSize a CreateRequest passes iff its content *)
(* is non-empty and 2 <= len(content) <= maxSize.                         *)
C8_CreateBoundedForEveryMaxSize ==
  validated.op = "ValidateBody" =>
    /\ validated.kind = "CreateRequest" =>
         LET l == StrLen(validated.body.Content)
             passes == l > 0 /\ l >= 2 /\ l <= validated.maxSize
         IN  /\ validated.err = {} <=> passes
             /\ "Content" \in Named <=> ~passes
    /\ SigninSignupRules

=============================================================================
